---------------------------- MODULE Spec2Model ----------------------------
(***************************************************************************)
(* Model of the payment engine: the per-client account ledger             *)
(* (src/src/client.rs), the worker task that owns the registry of ledgers *)
(* (src/src/process.rs) and the ingestion / emission loop around it       *)
(* (src/src/lib.rs).                                                       *)
(*                                                                         *)
(* Amounts are exact fixed-point integers counted in units of 10^-4 (the  *)
(* resolution get_info prints at); the source holds them in f32.          *)
(***************************************************************************)
EXTENDS Integers, Sequences, FiniteSets, TLC

(***************************************************************************)
(* Bounds of the model.                                                    *)
(***************************************************************************)
\* records read from the input file in the pipeline specification
MaxTx == 3
\* records read from the input file in the fair pipeline specification
MaxFairTx == 2
\* transactions applied in the ledger-only specification
MaxLedgerTx == 4
\* transactions applied in the single-account specification
MaxAccountTx == 5
\* client ids are 1..MaxClient
MaxClient == 2
\* transaction ids are 1..MaxTxId
MaxTxId == 2
\* amounts are -MaxAmount..MaxAmount multiples of AmountUnit (the reader
\* parses any f32, negative ones included, and nothing rejects them)
MaxAmount == 1
\* one amount step, in units of 10^-4: 0.5000
AmountUnit == 5000

\* number of 10^-4 units in 1.0 ("{:.4}")
Scale == 10000

ClientIds == 1..MaxClient
TxIds == 1..MaxTxId
Amounts == {k * AmountUnit : k \in (0 - MaxAmount)..MaxAmount}

(***************************************************************************)
(* transaction.rs                                                          *)
(***************************************************************************)
TransactionEnum == {"Deposit", "Withdrawal", "Dispute", "Resolve", "Chargeback"}

\* default_amount(): the amount of a record that has no amount field
default_amount == 0

\* The records the reader can deserialize: a record of four fields (type,
\* client, tx, amount) or of three fields (type, client, tx; the amount is
\* defaulted).  process_txs chooses the header by the number of fields
\* alone, so a record of either length can carry any of the five types.
Transaction ==
    [tx_type : TransactionEnum, client_id : ClientIds,
     tx_id : TxIds, tx_amount : Amounts]
    \cup
    [tx_type : TransactionEnum, client_id : ClientIds,
     tx_id : TxIds, tx_amount : {default_amount}]

NoTx == [tx_type |-> "None", client_id |-> 0, tx_id |-> 0, tx_amount |-> 0]

(***************************************************************************)
(* client.rs                                                               *)
(***************************************************************************)
\* impl Default for Client
DefaultClient ==
    [balance_available |-> 0,
     balance_held |-> 0,
     balance_total |-> 0,
     transactions |-> <<>>,
     disputed_tx |-> {},
     previous_tx_id |-> 0,
     frozen |-> FALSE]

\* Client::chain_tx
chain_tx(self, tx_id, tx_type, tx_amount) ==
    [self EXCEPT !.previous_tx_id = tx_id,
                 !.transactions = (tx_id :> <<tx_type, tx_amount>>) @@ @]

\* a constructor that credits the amount of a first transaction of any kind
ClientNew_CreditAnyKind(tx_id, tx_type, tx_amount) ==
    LET client == [DefaultClient EXCEPT !.balance_available = tx_amount,
                                        !.balance_total = tx_amount,
                                        !.previous_tx_id = tx_id]
    IN  [client EXCEPT !.transactions = (tx_id :> <<tx_type, tx_amount>>) @@ @]

\* Client::new
ClientNew(tx_id, tx_type, tx_amount) ==
    LET balance == IF tx_type = "Deposit" THEN tx_amount ELSE 0
        client == [DefaultClient EXCEPT !.balance_available = balance,
                                        !.balance_total = balance,
                                        !.previous_tx_id = tx_id]
    IN  chain_tx(client, tx_id, tx_type, tx_amount)

\* account_frozen that never reports the account as frozen
account_frozen_NeverErr(self) == FALSE

\* Client::account_frozen: TRUE when the call returns Err
account_frozen(self) == self.frozen

\* a funds check that refuses an amount equal to the available balance
sufficient_funds_Strict(self, tx_amount) == self.balance_available > tx_amount

\* Client::sufficient_funds: TRUE when the call returns Ok
sufficient_funds(self, tx_amount) == self.balance_available >= tx_amount

\* Client::disputed_status: TRUE when the call returns Ok
disputed_status(self, tx_id, status) == (tx_id \in self.disputed_tx) = status

\* Client::get_tx_val: TRUE when the call returns Ok, and the value it returns
has_tx_val(self, tx_id) == tx_id \in DOMAIN self.transactions
get_tx_val(self, tx_id) == self.transactions[tx_id][2]

Ok(c) == [client |-> c, result |-> "Ok"]
Err(c, e) == [client |-> c, result |-> e]

\* Deposit arm that takes the total to be the available balance alone
ProcessDeposit_TotalIsAvailable(self, tx_id, tx_amount) ==
    LET a == [self EXCEPT !.balance_available = @ + tx_amount]
        t == [a EXCEPT !.balance_total = a.balance_available]
    IN  Ok(chain_tx(t, tx_id, "Deposit", tx_amount))

\* Client::process_tx, Deposit arm
ProcessDeposit(self, tx_id, tx_amount) ==
    LET a == [self EXCEPT !.balance_available = @ + tx_amount]
        t == [a EXCEPT !.balance_total = a.balance_available + a.balance_held]
    IN  Ok(chain_tx(t, tx_id, "Deposit", tx_amount))

\* Withdrawal arm that leaves the total balance as it was
ProcessWithdrawal_KeepTotal(self, tx_id, tx_amount) ==
    IF ~sufficient_funds(self, tx_amount) THEN Err(self, "InsufficientFunds")
    ELSE Ok(chain_tx([self EXCEPT !.balance_available = @ - tx_amount],
                     tx_id, "Withdrawal", tx_amount))

\* Client::process_tx, Withdrawal arm
ProcessWithdrawal(self, tx_id, tx_amount) ==
    IF ~sufficient_funds(self, tx_amount) THEN Err(self, "InsufficientFunds")
    ELSE
        LET a == [self EXCEPT !.balance_available = @ - tx_amount]
            t == [a EXCEPT !.balance_total = a.balance_available + a.balance_held]
        IN  Ok(chain_tx(t, tx_id, "Withdrawal", tx_amount))

\* Dispute arm that marks the transaction disputed before the funds check
ProcessDispute_MarkFirst(self, tx_id) ==
    IF ~disputed_status(self, tx_id, FALSE) THEN Err(self, "AlreadyDisputed")
    ELSE IF ~has_tx_val(self, tx_id) THEN Err(self, "UnknownTransaction")
    ELSE
        LET disputed_val == get_tx_val(self, tx_id)
            marked == [self EXCEPT !.disputed_tx = @ \cup {tx_id}]
        IN  IF ~sufficient_funds(self, disputed_val)
            THEN Err(marked, "InsufficientFunds")
            ELSE Ok([marked EXCEPT !.balance_available = @ - disputed_val,
                                   !.balance_held = @ + disputed_val])

\* Dispute arm that takes the value of an unknown transaction to be zero
ProcessDispute_UnknownIsZero(self, tx_id) ==
    IF ~disputed_status(self, tx_id, FALSE) THEN Err(self, "AlreadyDisputed")
    ELSE
        LET disputed_val == IF has_tx_val(self, tx_id) THEN get_tx_val(self, tx_id) ELSE 0
        IN  IF ~sufficient_funds(self, disputed_val)
            THEN Err(self, "InsufficientFunds")
            ELSE Ok([self EXCEPT !.balance_available = @ - disputed_val,
                                 !.balance_held = @ + disputed_val,
                                 !.disputed_tx = @ \cup {tx_id}])

\* Dispute arm that holds the value without taking it from available
ProcessDispute_HeldOnly(self, tx_id) ==
    IF ~disputed_status(self, tx_id, FALSE) THEN Err(self, "AlreadyDisputed")
    ELSE IF ~has_tx_val(self, tx_id) THEN Err(self, "UnknownTransaction")
    ELSE
        LET disputed_val == get_tx_val(self, tx_id)
        IN  IF ~sufficient_funds(self, disputed_val)
            THEN Err(self, "InsufficientFunds")
            ELSE Ok([self EXCEPT !.balance_held = @ + disputed_val,
                                 !.disputed_tx = @ \cup {tx_id}])

\* Client::process_tx, Dispute arm
ProcessDispute(self, tx_id) ==
    IF ~disputed_status(self, tx_id, FALSE) THEN Err(self, "AlreadyDisputed")
    ELSE IF ~has_tx_val(self, tx_id) THEN Err(self, "UnknownTransaction")
    ELSE
        LET disputed_val == get_tx_val(self, tx_id)
        IN  IF ~sufficient_funds(self, disputed_val)
            THEN Err(self, "InsufficientFunds")
            ELSE Ok([self EXCEPT !.balance_available = @ - disputed_val,
                                 !.balance_held = @ + disputed_val,
                                 !.disputed_tx = @ \cup {tx_id}])

\* Resolve arm that releases the value but leaves it in held as well
ProcessResolve_KeepHeld(self, tx_id) ==
    IF ~disputed_status(self, tx_id, TRUE) THEN Err(self, "NotDisputed")
    ELSE IF ~has_tx_val(self, tx_id) THEN Err(self, "UnknownTransaction")
    ELSE
        LET disputed_val == get_tx_val(self, tx_id)
        IN  IF disputed_val <= self.balance_held
            THEN Ok([self EXCEPT !.balance_available = @ + disputed_val,
                                 !.disputed_tx = @ \ {tx_id}])
            ELSE Ok(self)

\* Resolve arm that leaves the id in the disputed set
ProcessResolve_KeepDisputed(self, tx_id) ==
    IF ~disputed_status(self, tx_id, TRUE) THEN Err(self, "NotDisputed")
    ELSE IF ~has_tx_val(self, tx_id) THEN Err(self, "UnknownTransaction")
    ELSE
        LET disputed_val == get_tx_val(self, tx_id)
        IN  IF disputed_val <= self.balance_held
            THEN Ok([self EXCEPT !.balance_available = @ + disputed_val,
                                 !.balance_held = @ - disputed_val])
            ELSE Ok(self)

\* Resolve arm without the comparison of the value against held
ProcessResolve_NoGuard(self, tx_id) ==
    IF ~disputed_status(self, tx_id, TRUE) THEN Err(self, "NotDisputed")
    ELSE IF ~has_tx_val(self, tx_id) THEN Err(self, "UnknownTransaction")
    ELSE
        LET disputed_val == get_tx_val(self, tx_id)
        IN  Ok([self EXCEPT !.balance_available = @ + disputed_val,
                            !.balance_held = @ - disputed_val,
                            !.disputed_tx = @ \ {tx_id}])

\* Client::process_tx, Resolve arm
ProcessResolve(self, tx_id) ==
    IF ~disputed_status(self, tx_id, TRUE) THEN Err(self, "NotDisputed")
    ELSE IF ~has_tx_val(self, tx_id) THEN Err(self, "UnknownTransaction")
    ELSE
        LET disputed_val == get_tx_val(self, tx_id)
        IN  IF disputed_val <= self.balance_held
            THEN Ok([self EXCEPT !.balance_available = @ + disputed_val,
                                 !.balance_held = @ - disputed_val,
                                 !.disputed_tx = @ \ {tx_id}])
            ELSE Ok(self)

\* Chargeback arm that leaves the total balance as it was
ProcessChargeback_KeepTotal(self, tx_id) ==
    IF ~disputed_status(self, tx_id, TRUE) THEN Err(self, "NotDisputed")
    ELSE IF ~has_tx_val(self, tx_id) THEN Err(self, "UnknownTransaction")
    ELSE
        LET disputed_val == get_tx_val(self, tx_id)
        IN  IF disputed_val <= self.balance_held
            THEN Ok([self EXCEPT !.frozen = TRUE,
                                 !.balance_held = @ - disputed_val,
                                 !.disputed_tx = @ \ {tx_id}])
            ELSE Ok(self)

\* Chargeback arm that freezes the account before it compares the value
ProcessChargeback_FreezeFirst(self, tx_id) ==
    IF ~disputed_status(self, tx_id, TRUE) THEN Err(self, "NotDisputed")
    ELSE IF ~has_tx_val(self, tx_id) THEN Err(self, "UnknownTransaction")
    ELSE
        LET disputed_val == get_tx_val(self, tx_id)
        IN  IF disputed_val <= self.balance_held
            THEN Ok([self EXCEPT !.frozen = TRUE,
                                 !.balance_held = @ - disputed_val,
                                 !.balance_total = @ - disputed_val,
                                 !.disputed_tx = @ \ {tx_id}])
            ELSE Ok([self EXCEPT !.frozen = TRUE])

\* Client::process_tx, Chargeback arm
ProcessChargeback(self, tx_id) ==
    IF ~disputed_status(self, tx_id, TRUE) THEN Err(self, "NotDisputed")
    ELSE IF ~has_tx_val(self, tx_id) THEN Err(self, "UnknownTransaction")
    ELSE
        LET disputed_val == get_tx_val(self, tx_id)
        IN  IF disputed_val <= self.balance_held
            THEN Ok([self EXCEPT !.frozen = TRUE,
                                 !.balance_held = @ - disputed_val,
                                 !.balance_total = @ - disputed_val,
                                 !.disputed_tx = @ \ {tx_id}])
            ELSE Ok(self)

\* Client::process_tx
process_tx(self, tx_id, tx_type, tx_amount) ==
    IF account_frozen(self) THEN Err(self, "AccountFrozen")
    ELSE CASE tx_type = "Deposit" -> ProcessDeposit(self, tx_id, tx_amount)
           [] tx_type = "Withdrawal" -> ProcessWithdrawal(self, tx_id, tx_amount)
           [] tx_type = "Dispute" -> ProcessDispute(self, tx_id)
           [] tx_type = "Resolve" -> ProcessResolve(self, tx_id)
           [] tx_type = "Chargeback" -> ProcessChargeback(self, tx_id)


\* one printed balance, format!("{:.4}", x): sign, integer digits and exactly
\* four fractional digits of a value counted in 10^-4 units
Fmt4(x) ==
    LET m == IF x < 0 THEN -x ELSE x
    IN  [neg |-> x < 0, int |-> m \div Scale, frac |-> m % Scale]

\* the value a printed balance denotes, in 10^-4 units
Unfmt4(f) == IF f.neg THEN -(f.int * Scale + f.frac) ELSE f.int * Scale + f.frac

\* Client::get_info
get_info(self, client_id) ==
    [client |-> client_id,
     available |-> Fmt4(self.balance_available),
     held |-> Fmt4(self.balance_held),
     total |-> Fmt4(self.balance_total),
     locked |-> self.frozen]

(***************************************************************************)
(* process.rs: the registry and the channels                               *)
(***************************************************************************)
\* mpsc::UnboundedSender::send
ChanSend(q, x) == Append(q, x)

\* a receive that takes the newest item instead of the oldest
ChanRecv_Newest(q) == [item |-> q[Len(q)], rest |-> SubSeq(q, 1, Len(q) - 1)]

\* mpsc::UnboundedReceiver::try_recv, Ok arm: the item taken and what is left
ChanRecv(q) == [item |-> Head(q), rest |-> Tail(q)]

\* a registry whose entries are looked up under the transaction id
Dispatch_ByTxId(cl, tx) ==
    IF tx.tx_id \in DOMAIN cl
    THEN LET r == process_tx(cl[tx.tx_id], tx.tx_id, tx.tx_type, tx.tx_amount)
         IN  [clients |-> [cl EXCEPT ![tx.tx_id] = r.client],
              result |-> r.result]
    ELSE [clients |-> (tx.tx_id :> ClientNew(tx.tx_id, tx.tx_type, tx.tx_amount)) @@ cl,
          result |-> "Created"]

\* The Ok(tx) arm of ProcessTransactionsTask::run: entry(client_id)
\* .and_modify(process_tx) .or_insert_with(Client::new).  Yields the new
\* registry and the outcome ("Created" when the entry was vacant).
Dispatch(cl, tx) ==
    IF tx.client_id \in DOMAIN cl
    THEN LET r == process_tx(cl[tx.client_id], tx.tx_id, tx.tx_type, tx.tx_amount)
         IN  [clients |-> [cl EXCEPT ![tx.client_id] = r.client],
              result |-> r.result]
    ELSE [clients |-> (tx.client_id :> ClientNew(tx.tx_id, tx.tx_type, tx.tx_amount)) @@ cl,
          result |-> "Created"]

\* the registry after the worker has taken the transactions of txs in order
RECURSIVE ApplyAll(_, _)
ApplyAll(cl, txs) ==
    IF txs = <<>> THEN cl ELSE ApplyAll(Dispatch(cl, Head(txs)).clients, Tail(txs))

\* the orders in which HashMap::iter can visit the keys S
IterOrders(S) ==
    {s \in [1..Cardinality(S) -> S] : \A i, j \in 1..Cardinality(S) : i # j => s[i] # s[j]}

\* ProcessTransactionsTask::send_acccount_balances, visiting in order ord
Balances(cl, ord) == [i \in 1..Len(ord) |-> get_info(cl[ord[i]], ord[i])]

Header == [client |-> "client", available |-> "available", held |-> "held",
           total |-> "total", locked |-> "locked"]

(***************************************************************************)
(* State                                                                   *)
(***************************************************************************)
VARIABLES
    pc_main,    \* process_txs: "read", "recv", "done" (Ok) or "aborted" (Err)
    pc_task,    \* ProcessTransactionsTask::run: "run" or "done"
    rx_tx,      \* inbound channel: transactions sent and not yet received
    tx_open,    \* the sender tx_tx has not been dropped
    tx_result,  \* outbound channel: records sent and not yet received
    rx_open,    \* the receiver rx_result has not been dropped
    res_open,   \* the sender tx_result has not been dropped
    clients,    \* ProcessTransactionsTask.clients
    output,     \* records written to stdout by the csv writer
    log,        \* log::error! lines of the worker
    submitted,  \* history: the transactions sent, in order
    applied,    \* history: the transactions the worker has taken, in order
    taken,      \* history: how many transactions the worker has taken
    last        \* history: the last transaction taken and its account before;
                \* clean: no transaction taken so far had a negative amount or
                \* was a Deposit or Withdrawal under an id already in history;
                \* net: per account, the amounts of the Deposits applied, less
                \* those of the Withdrawals that passed the funds check, less
                \* the amount a Chargeback removed

vars == <<pc_main, pc_task, rx_tx, tx_open, tx_result, rx_open, res_open,
          clients, output, log, submitted, applied, taken, last>>

NoLast == [tx |-> NoTx, existed |-> FALSE, before |-> DefaultClient, result |-> "None",
           clean |-> TRUE, net |-> <<>>]

\* ProcessTransactions::new, at the top of process_txs
Init ==
    /\ pc_main = "read"
    /\ pc_task = "run"
    /\ rx_tx = <<>>
    /\ tx_open = TRUE
    /\ tx_result = <<>>
    /\ rx_open = TRUE
    /\ res_open = TRUE
    /\ clients = <<>>
    /\ output = <<>>
    /\ log = <<>>
    /\ submitted = <<>>
    /\ applied = <<>>
    /\ taken = 0
    /\ last = NoLast

(***************************************************************************)
(* lib.rs: process_txs                                                     *)
(***************************************************************************)
\* one turn of the read loop: a record of three or four fields is
\* deserialized and sent to the worker
ReadRecord ==
    /\ pc_main = "read"
    /\ Len(submitted) < MaxTx
    /\ \E tx \in Transaction :
          /\ rx_tx' = ChanSend(rx_tx, tx)
          /\ submitted' = Append(submitted, tx)
    /\ UNCHANGED <<pc_main, pc_task, tx_open, tx_result, rx_open, res_open,
                   clients, output, log, applied, taken, last>>

\* a read loop whose writer and header row exist before the first record
ReadBadRecord_HeaderFirst ==
    /\ pc_main = "read"
    /\ pc_main' = "aborted"
    /\ tx_open' = FALSE
    /\ rx_open' = FALSE
    /\ tx_result' = <<>>
    /\ output' = Append(output, Header)
    /\ UNCHANGED <<pc_task, rx_tx, res_open, clients, log,
                   submitted, applied, taken, last>>

\* one turn of the read loop on a record of any other length, or one that
\* does not deserialize: bail!/? returns Err; process_tx is dropped with
\* both its channel ends, and no writer was ever created
ReadBadRecord ==
    /\ pc_main = "read"
    /\ pc_main' = "aborted"
    /\ tx_open' = FALSE
    /\ rx_open' = FALSE
    /\ tx_result' = <<>>
    /\ UNCHANGED <<pc_task, rx_tx, res_open, clients, output, log,
                   submitted, applied, taken, last>>

\* end of file: drop(process_tx.tx_tx), then the writer and its header row
EndOfFile ==
    /\ pc_main = "read"
    /\ pc_main' = "recv"
    /\ tx_open' = FALSE
    /\ output' = Append(output, Header)
    /\ UNCHANGED <<pc_task, rx_tx, tx_result, rx_open, res_open, clients,
                   log, submitted, applied, taken, last>>

\* rx_result.recv().await yields Some(record): it is written to stdout
RecvResult ==
    /\ pc_main = "recv"
    /\ tx_result # <<>>
    /\ output' = Append(output, ChanRecv(tx_result).item)
    /\ tx_result' = ChanRecv(tx_result).rest
    /\ UNCHANGED <<pc_main, pc_task, rx_tx, tx_open, rx_open, res_open,
                   clients, log, submitted, applied, taken, last>>

\* rx_result.recv().await yields None: the channel is empty and its sender
\* is gone; process_txs returns Ok
RecvNone ==
    /\ pc_main = "recv"
    /\ tx_result = <<>>
    /\ ~res_open
    /\ pc_main' = "done"
    /\ rx_open' = FALSE
    /\ UNCHANGED <<pc_task, rx_tx, tx_open, tx_result, res_open, clients,
                   output, log, submitted, applied, taken, last>>

(***************************************************************************)
(* process.rs: ProcessTransactionsTask::run                                *)
(***************************************************************************)
\* What the transaction tx, taken with outcome result on the registry cl,
\* adds to the net amount of its account: the amount of a Deposit that was
\* applied, minus the amount of a Withdrawal that passed the funds check,
\* minus the recorded value of a Chargeback that passed the comparison
\* against held.
NetChange(cl, tx, result) ==
    CASE tx.tx_type = "Deposit" /\ result \in {"Ok", "Created"} -> tx.tx_amount
      [] tx.tx_type = "Withdrawal" /\ result = "Ok" -> 0 - tx.tx_amount
      [] /\ tx.tx_type = "Chargeback"
         /\ result = "Ok"
         /\ get_tx_val(cl[tx.client_id], tx.tx_id) <= cl[tx.client_id].balance_held
           -> 0 - get_tx_val(cl[tx.client_id], tx.tx_id)
      [] OTHER -> 0

\* The body of the Ok(tx) arm of run for the transaction tx: the registry
\* entry of tx.client_id is modified or inserted.
TakeTx(tx) ==
    LET d == Dispatch(clients, tx)
        existed == tx.client_id \in DOMAIN clients
    IN  /\ clients' = d.clients
        /\ taken' = taken + 1
        /\ last' = [tx |-> tx, existed |-> existed,
                    before |-> IF existed THEN clients[tx.client_id] ELSE DefaultClient,
                    result |-> d.result,
                    clean |-> /\ last.clean
                              /\ tx.tx_amount >= 0
                              /\ ~(/\ existed
                                    /\ tx.tx_type \in {"Deposit", "Withdrawal"}
                                    /\ tx.tx_id \in DOMAIN clients[tx.client_id].transactions),
                    net |-> (tx.client_id :>
                                (IF existed THEN last.net[tx.client_id] ELSE 0)
                                + NetChange(clients, tx, d.result)) @@ last.net]

\* a worker that returns from run at the first Err of process_tx
RunRecv_StopOnErr ==
    /\ pc_task = "run"
    /\ rx_tx # <<>>
    /\ LET tx == ChanRecv(rx_tx).item
           failed == Dispatch(clients, tx).result \notin {"Ok", "Created"}
       IN  /\ rx_tx' = ChanRecv(rx_tx).rest
           /\ TakeTx(tx)
           /\ applied' = Append(applied, tx)
           /\ log' = IF ~failed THEN log
                     ELSE Append(log, [n |-> taken + 1, tx |-> tx,
                                       err |-> Dispatch(clients, tx).result])
           /\ pc_task' = IF failed THEN "done" ELSE pc_task
           /\ res_open' = IF failed THEN FALSE ELSE res_open
    /\ UNCHANGED <<pc_main, tx_open, tx_result, rx_open, output, submitted>>

\* try_recv() = Ok(tx); an Err of process_tx goes to log::error!
RunRecv ==
    /\ pc_task = "run"
    /\ rx_tx # <<>>
    /\ LET tx == ChanRecv(rx_tx).item
       IN  /\ rx_tx' = ChanRecv(rx_tx).rest
           /\ TakeTx(tx)
           /\ applied' = Append(applied, tx)
           /\ log' = IF Dispatch(clients, tx).result \in {"Ok", "Created"} THEN log
                     ELSE Append(log, [n |-> taken + 1, tx |-> tx,
                                       err |-> Dispatch(clients, tx).result])
    /\ UNCHANGED <<pc_main, pc_task, tx_open, tx_result, rx_open, res_open,
                   output, submitted>>

\* try_recv() = Err(TryRecvError::Empty): the loop spins
RunEmpty ==
    /\ pc_task = "run"
    /\ rx_tx = <<>>
    /\ tx_open
    /\ UNCHANGED vars

\* a worker that sends the balances as soon as the channel is empty
RunDisconnected_OnEmpty ==
    /\ pc_task = "run"
    /\ rx_tx = <<>>
    /\ \E ord \in IterOrders(DOMAIN clients) :
          tx_result' = IF rx_open THEN tx_result \o Balances(clients, ord)
                       ELSE tx_result
    /\ pc_task' = "done"
    /\ res_open' = FALSE
    /\ UNCHANGED <<pc_main, rx_tx, tx_open, rx_open, clients, output, log,
                   submitted, applied, taken, last>>

\* a worker that treats a disconnected channel like an empty one
RunDisconnected_Spin ==
    /\ pc_task = "run"
    /\ rx_tx = <<>>
    /\ ~tx_open
    /\ UNCHANGED vars

\* try_recv() = Err(TryRecvError::Disconnected): send_acccount_balances,
\* then run returns and the task is dropped with its sender tx_result.
\* A send to a dropped receiver fails and the failure is ignored.
RunDisconnected ==
    /\ pc_task = "run"
    /\ rx_tx = <<>>
    /\ ~tx_open
    /\ \E ord \in IterOrders(DOMAIN clients) :
          tx_result' = IF rx_open THEN tx_result \o Balances(clients, ord)
                       ELSE tx_result
    /\ pc_task' = "done"
    /\ res_open' = FALSE
    /\ UNCHANGED <<pc_main, rx_tx, tx_open, rx_open, clients, output, log,
                   submitted, applied, taken, last>>

Next ==
    \/ ReadRecord
    \/ ReadBadRecord
    \/ EndOfFile
    \/ RecvResult
    \/ RecvNone
    \/ RunRecv
    \/ RunEmpty
    \/ RunDisconnected

Spec == Init /\ [][Next]_vars

\* The pipeline under fair scheduling: the worker's loop keeps turning
\* (tokio runs the spawned task), and process_txs, the root future, is
\* resumed whenever its recv().await can complete.  The read loop reads at
\* most MaxFairTx records here.
FairNext ==
    \/ (Len(submitted) < MaxFairTx /\ ReadRecord)
    \/ ReadBadRecord
    \/ EndOfFile
    \/ RecvResult
    \/ RecvNone
    \/ RunRecv
    \/ RunEmpty
    \/ RunDisconnected

FairSpec ==
    /\ Init
    /\ [][FairNext]_vars
    /\ WF_vars(RunRecv)
    /\ WF_vars(RunDisconnected)
    /\ WF_vars(RecvResult)
    /\ WF_vars(RecvNone)

(***************************************************************************)
(* The ledger registry alone: the Ok(tx) arm of run taking any             *)
(* transaction, whatever the channel delivers, MaxLedgerTx times.          *)
(***************************************************************************)
LedgerApply ==
    /\ taken < MaxLedgerTx
    /\ \E tx \in Transaction : TakeTx(tx)
    /\ UNCHANGED <<pc_main, pc_task, rx_tx, tx_open, tx_result, rx_open,
                   res_open, output, log, submitted, applied>>

LedgerNext == LedgerApply

LedgerSpec == Init /\ [][LedgerNext]_vars

(***************************************************************************)
(* One ledger alone: the Ok(tx) arm of run taking any transaction of       *)
(* the first client, MaxAccountTx times.                                   *)
(***************************************************************************)
AccountApply ==
    /\ taken < MaxAccountTx
    /\ \E tx \in {t \in Transaction : t.client_id = 1} : TakeTx(tx)
    /\ UNCHANGED <<pc_main, pc_task, rx_tx, tx_open, tx_result, rx_open,
                   res_open, output, log, submitted, applied>>

AccountNext == AccountApply

AccountSpec == Init /\ [][AccountNext]_vars


(***************************************************************************)
(* Helpers of the properties                                               *)
(***************************************************************************)
\* the last transaction taken was applied to an account that existed
LastOnExisting == last.existed /\ last.tx.client_id \in DOMAIN clients

\* the last transaction taken found its account and process_tx returned Err
LastFailed == LastOnExisting /\ last.result \notin {"Ok", "Created", "None"}

\* the account the last transaction was routed to, as it is now
LastAccount == clients[last.tx.client_id]

\* the transactions of txs whose client is c, in order
RECURSIVE OfClient(_, _)
OfClient(txs, c) ==
    IF txs = <<>> THEN <<>>
    ELSE IF Head(txs).client_id = c THEN <<Head(txs)>> \o OfClient(Tail(txs), c)
    ELSE OfClient(Tail(txs), c)

\* txs without its element number n
RemoveAt(txs, n) == SubSeq(txs, 1, n - 1) \o SubSeq(txs, n + 1, Len(txs))

\* txs without the elements whose numbers are in ns
RECURSIVE RemoveAll(_, _, _)
RemoveAll(txs, ns, i) ==
    IF txs = <<>> THEN <<>>
    ELSE IF i \in ns THEN RemoveAll(Tail(txs), ns, i + 1)
    ELSE <<Head(txs)>> \o RemoveAll(Tail(txs), ns, i + 1)

\* the snapshot rows sent so far: those in flight and those written
Rows == SubSeq(output, 2, Len(output)) \o tx_result

\* the snapshots of the registry cl
SnapshotsOf(cl) == {get_info(cl[c], c) : c \in DOMAIN cl}

\* the client ids that occur in txs
ClientsIn(txs) == {txs[i].client_id : i \in 1..Len(txs)}

(***************************************************************************)
(* Properties                                                              *)
(***************************************************************************)

\* C1: in every reachable state, for every account, total = available + held
\* (after the creating transaction, after successes and after failures).
C1_TotalIsAvailablePlusHeld ==
    \A c \in DOMAIN clients :
        clients[c].balance_total = clients[c].balance_available + clients[c].balance_held

\* C1 witness: a chargeback has just removed a positive held amount, after
\* which the equation is still to hold.
C1_Witness ==
    /\ LastOnExisting
    /\ last.tx.tx_type = "Chargeback"
    /\ last.result = "Ok"
    /\ last.before.balance_held > 0
    /\ LastAccount.balance_held < last.before.balance_held

\* C2: a frozen account stays frozen and unchanged in every step, and a
\* transaction taken for it, of whatever kind, ends with the account-frozen
\* error.
C2_FrozenIsTerminal ==
    [][\A c \in DOMAIN clients :
          clients[c].frozen =>
             /\ c \in DOMAIN clients'
             /\ clients'[c] = clients[c]
             /\ (taken' # taken /\ last'.tx.client_id = c)
                   => last'.result = "AccountFrozen"]_vars

\* C2 witness: a withdrawal that the funds check would also have refused
\* was taken for a frozen account.
C2_Witness ==
    /\ LastOnExisting
    /\ last.before.frozen
    /\ last.tx.tx_type = "Withdrawal"
    /\ ~sufficient_funds(last.before, last.tx.tx_amount)

\* C3: what the worker has taken, followed by what is still queued, is
\* exactly what was submitted, the registry is the result of applying the
\* taken transactions in that order, and a worker that is done has taken
\* every submitted transaction.
C3_AppliedInSubmissionOrder ==
    /\ applied \o rx_tx = submitted
    /\ taken = Len(applied)
    /\ clients = ApplyAll(<<>>, applied)
    /\ pc_task = "done" => applied = submitted

\* C3 witness: three different transactions were submitted and the worker
\* has taken all of them, the first before the last was submitted or not.
C3_Witness ==
    /\ Len(submitted) = 3
    /\ applied = submitted
    /\ submitted[1] # submitted[2]
    /\ submitted[2] # submitted[3]
    /\ submitted[1] # submitted[3]

\* C4: when process_tx returned an error for an existing account, the
\* account is exactly what it was before the call.
C4_ErrorLeavesAccountUnchanged ==
    LastFailed => LastAccount = last.before

\* C4 witness: a dispute of a recorded transaction failed the funds check on
\* an account that holds a non-empty history.
C4_Witness ==
    /\ LastFailed
    /\ last.tx.tx_type = "Dispute"
    /\ last.result = "InsufficientFunds"

\* C5: no snapshot is sent before the sender was dropped and every submitted
\* transaction applied; once the worker is done (and the run was not
\* aborted) the rows are exactly one per client id submitted, each carrying
\* the final balances and frozen flag of that account.
C5_SnapshotsAfterCompletion ==
    /\ Rows # <<>> =>
          /\ ~tx_open
          /\ pc_main \in {"recv", "done"}
          /\ rx_tx = <<>>
          /\ applied = submitted
    /\ (pc_task = "done" /\ pc_main \in {"recv", "done"}) =>
          LET final == ApplyAll(<<>>, submitted)
          IN  /\ Len(Rows) = Cardinality(ClientsIn(submitted))
              /\ \A c \in ClientsIn(submitted) :
                    \E i \in 1..Len(Rows) :
                       /\ Rows[i].client = c
                       /\ Unfmt4(Rows[i].available) = final[c].balance_available
                       /\ Unfmt4(Rows[i].held) = final[c].balance_held
                       /\ Unfmt4(Rows[i].total) = final[c].balance_total
                       /\ Rows[i].locked = final[c].frozen

\* C5 witness: the run has ended with the rows of two clients written, one
\* of them with a balance of at least 1.0000.
C5_Witness ==
    /\ pc_main = "done"
    /\ Len(output) = 3
    /\ \E i \in 2..3 : output[i].total.int >= 1

\* C6: when the worker is done, every submitted transaction was taken, and
\* the snapshots are those of the submitted sequence without any one of the
\* transactions that failed (and without all of them).
C6_FailureIsDropped ==
    (pc_task = "done") =>
        /\ applied = submitted
        /\ \A i \in 1..Len(log) :
              SnapshotsOf(ApplyAll(<<>>, RemoveAt(submitted, log[i].n))) = SnapshotsOf(clients)
        /\ SnapshotsOf(ApplyAll(<<>>, RemoveAll(submitted, {log[i].n : i \in 1..Len(log)}, 1)))
              = SnapshotsOf(clients)
        /\ pc_main \in {"recv", "done"} =>
              {Rows[i] : i \in 1..Len(Rows)} = SnapshotsOf(clients)

\* C6 witness: the worker is done, a transaction failed and a later one, for
\* the same account, succeeded.
C6_Witness ==
    /\ pc_task = "done"
    /\ pc_main = "done"
    /\ Len(log) = 1
    /\ log[1].n < Len(submitted)
    /\ last.result = "Ok"
    /\ last.tx.client_id = log[1].tx.client_id

\* C7: the account created by a first transaction is the account that
\* process_tx makes of the default (empty, unfrozen, zero) account.
C7_FirstTxIsApplied ==
    (last.result = "Created") =>
        LastAccount = process_tx(DefaultClient, last.tx.tx_id, last.tx.tx_type,
                                 last.tx.tx_amount).client

\* C8: every history entry is a Deposit or a Withdrawal, and so is the
\* entry of every disputed transaction id.
C8_HistoryHoldsDepositsAndWithdrawals ==
    \A c \in DOMAIN clients :
        /\ \A t \in DOMAIN clients[c].transactions :
              clients[c].transactions[t][1] \in {"Deposit", "Withdrawal"}
        /\ \A t \in clients[c].disputed_tx :
              /\ t \in DOMAIN clients[c].transactions
              /\ clients[c].transactions[t][1] \in {"Deposit", "Withdrawal"}

\* C9: for every account the disputed set is a subset of the history keys.
C9_DisputedSubsetOfHistory ==
    \A c \in DOMAIN clients :
        clients[c].disputed_tx \subseteq DOMAIN clients[c].transactions

\* C9 witness: a dispute of an id that the history does not hold was
\* refused while another id of the account is under dispute.
C9_Witness ==
    /\ LastFailed
    /\ last.tx.tx_type = "Dispute"
    /\ last.result = "UnknownTransaction"
    /\ LastAccount.disputed_tx # {}

\* C10: each account is what the transactions of its own client, applied
\* alone and in order, make of it; no transaction of another client shows.
C10_AccountDependsOnOwnTransactions ==
    \A c \in ClientIds :
        LET own == ApplyAll(<<>>, OfClient(applied, c))
        IN  /\ (c \in DOMAIN clients) = (c \in DOMAIN own)
            /\ c \in DOMAIN clients => clients[c] = own[c]

\* C10 witness: a dispute named an id that only the other client's history
\* holds, and was refused as unknown.
C10_Witness ==
    /\ LastFailed
    /\ last.tx.tx_type = "Dispute"
    /\ last.result = "UnknownTransaction"
    /\ \E d \in DOMAIN clients :
          /\ d # last.tx.client_id
          /\ last.tx.tx_id \in DOMAIN clients[d].transactions


\* C11: a run that was aborted by a malformed record has written nothing,
\* neither the header nor a row, and no row waits in the outbound channel,
\* however many records the worker had been sent or had taken.
C11_AbortWritesNothing ==
    (pc_main = "aborted") => (output = <<>> /\ tx_result = <<>>)

\* C11 witness: the run was aborted after two records had been taken, and
\* the worker has since sent its balances to the dropped receiver.
C11_Witness ==
    /\ pc_main = "aborted"
    /\ pc_task = "done"
    /\ taken >= 2
    /\ DOMAIN clients # {}

\* C12: under fair scheduling, once the input has ended and the sender is
\* dropped, the worker takes every submitted transaction, sends one row per
\* account and drops its sender, and the emission loop ends with the header
\* and every row written.
C12_PipelineTerminates ==
    (pc_main = "recv") ~>
        (/\ pc_main = "done"
         /\ pc_task = "done"
         /\ applied = submitted
         /\ ~res_open
         /\ tx_result = <<>>
         /\ Len(output) = 1 + Cardinality(DOMAIN clients))

\* C12 witness: the pipeline has ended after MaxFairTx submitted
\* transactions, all of them taken, and at least one row was written.
C12_Witness ==
    /\ pc_main = "done"
    /\ pc_task = "done"
    /\ Len(submitted) = MaxFairTx
    /\ applied = submitted
    /\ Len(output) >= 2


\* the last transaction taken was of kind k, for an existing unfrozen account
LastOnUnfrozen(k) ==
    LastOnExisting /\ ~last.before.frozen /\ last.tx.tx_type = k

\* C13: a Dispute on an existing unfrozen account fails as unknown when the
\* id is not in history, as already disputed when it is in the disputed
\* set, for insufficient funds when available < value, each time changing
\* nothing; otherwise it moves the value from available to held, adds the
\* id to the disputed set and changes nothing else.
C13_Dispute ==
    LastOnUnfrozen("Dispute") =>
        LET b == last.before
            t == last.tx.tx_id
        IN  IF t \notin DOMAIN b.transactions
            THEN last.result = "UnknownTransaction" /\ LastAccount = b
            ELSE IF t \in b.disputed_tx
            THEN last.result = "AlreadyDisputed" /\ LastAccount = b
            ELSE IF b.balance_available < b.transactions[t][2]
            THEN last.result = "InsufficientFunds" /\ LastAccount = b
            ELSE /\ last.result = "Ok"
                 /\ LastAccount =
                      [b EXCEPT !.balance_available = @ - b.transactions[t][2],
                                !.balance_held = @ + b.transactions[t][2],
                                !.disputed_tx = @ \cup {t}]

\* C13 witness: a dispute has moved a positive value from available to held.
C13_Witness ==
    /\ LastOnUnfrozen("Dispute")
    /\ last.result = "Ok"
    /\ LastAccount.balance_held > last.before.balance_held

\* C14: a Resolve on an existing unfrozen account fails as not disputed when
\* the id is not in the disputed set; otherwise it succeeds, and moves the
\* value from held to available and removes the id when value <= held,
\* and changes nothing when value > held.
C14_Resolve ==
    LastOnUnfrozen("Resolve") =>
        LET b == last.before
            t == last.tx.tx_id
        IN  IF t \notin b.disputed_tx
            THEN last.result = "NotDisputed" /\ LastAccount = b
            ELSE /\ last.result = "Ok"
                 /\ LastAccount =
                      IF b.transactions[t][2] <= b.balance_held
                      THEN [b EXCEPT !.balance_available = @ + b.transactions[t][2],
                                     !.balance_held = @ - b.transactions[t][2],
                                     !.disputed_tx = @ \ {t}]
                      ELSE b

\* C14 witness: a resolve has moved a positive value back to available.
C14_Witness ==
    /\ LastOnUnfrozen("Resolve")
    /\ last.result = "Ok"
    /\ LastAccount.balance_available > last.before.balance_available
    /\ last.tx.tx_id \notin LastAccount.disputed_tx

\* C15: a Chargeback on an existing unfrozen account fails as not disputed
\* when the id is not in the disputed set; otherwise it succeeds, and takes
\* the value from held and total, removes the id and freezes the account
\* when value <= held, and changes nothing when value > held.  No other
\* transition, the creation of an account included, sets the frozen flag.
C15_Chargeback ==
    /\ LastOnUnfrozen("Chargeback") =>
          LET b == last.before
              t == last.tx.tx_id
          IN  IF t \notin b.disputed_tx
              THEN last.result = "NotDisputed" /\ LastAccount = b
              ELSE /\ last.result = "Ok"
                   /\ LastAccount =
                        IF b.transactions[t][2] <= b.balance_held
                        THEN [b EXCEPT !.frozen = TRUE,
                                       !.balance_held = @ - b.transactions[t][2],
                                       !.balance_total = @ - b.transactions[t][2],
                                       !.disputed_tx = @ \ {t}]
                        ELSE b
    /\ (LastOnExisting /\ ~last.before.frozen /\ LastAccount.frozen)
          => last.tx.tx_type = "Chargeback"
    /\ last.result = "Created" => ~LastAccount.frozen

\* C15 witness: a chargeback of a disputed id whose value exceeds held has
\* returned Ok and left the account unfrozen.
C15_Witness ==
    /\ LastOnUnfrozen("Chargeback")
    /\ last.tx.tx_id \in last.before.disputed_tx
    /\ last.before.transactions[last.tx.tx_id][2] > last.before.balance_held
    /\ last.result = "Ok"
    /\ ~LastAccount.frozen

\* C16: a Withdrawal of a on an existing unfrozen account succeeds exactly
\* when available >= a; it then takes a from available, sets total to
\* available + held and records (Withdrawal, a) under its id; otherwise it
\* fails for insufficient funds and changes nothing, so that an id that
\* was not in history cannot be disputed afterwards.
C16_Withdrawal ==
    LastOnUnfrozen("Withdrawal") =>
        LET b == last.before
            t == last.tx.tx_id
            a == last.tx.tx_amount
        IN  IF b.balance_available >= a
            THEN /\ last.result = "Ok"
                 /\ LastAccount =
                      [b EXCEPT !.balance_available = @ - a,
                                !.balance_total = b.balance_available - a + b.balance_held,
                                !.previous_tx_id = t,
                                !.transactions = (t :> <<"Withdrawal", a>>) @@ @]
            ELSE /\ last.result = "InsufficientFunds"
                 /\ LastAccount = b
                 /\ t \notin DOMAIN b.transactions =>
                       process_tx(LastAccount, t, "Dispute", default_amount).result
                          = "UnknownTransaction"

\* C16 witness: a withdrawal of the whole positive available balance
\* succeeded.
C16_Witness ==
    /\ LastOnUnfrozen("Withdrawal")
    /\ last.tx.tx_amount > 0
    /\ last.tx.tx_amount = last.before.balance_available
    /\ last.result = "Ok"

\* C17: when a Deposit of a on an existing unfrozen account is followed at
\* once by a Withdrawal of a for the same account, both succeed and
\* available, held and total are what they were before the deposit.
C17_DepositThenWithdrawal ==
    [][(/\ LastOnUnfrozen("Deposit")
        /\ taken' = taken + 1
        /\ last'.tx.tx_type = "Withdrawal"
        /\ last'.tx.client_id = last.tx.client_id
        /\ last'.tx.tx_amount = last.tx.tx_amount)
       => (/\ last.result = "Ok"
           /\ last'.result = "Ok"
           /\ clients'[last.tx.client_id].balance_available = last.before.balance_available
           /\ clients'[last.tx.client_id].balance_held = last.before.balance_held
           /\ clients'[last.tx.client_id].balance_total = last.before.balance_total)]_vars

\* C17 amended: the same, for an account whose available balance was not
\* negative before the deposit.
C17_DepositThenWithdrawal_NonNegative ==
    [][(/\ LastOnUnfrozen("Deposit")
        /\ last.before.balance_available >= 0
        /\ taken' = taken + 1
        /\ last'.tx.tx_type = "Withdrawal"
        /\ last'.tx.client_id = last.tx.client_id
        /\ last'.tx.tx_amount = last.tx.tx_amount)
       => (/\ last.result = "Ok"
           /\ last'.result = "Ok"
           /\ clients'[last.tx.client_id].balance_available = last.before.balance_available
           /\ clients'[last.tx.client_id].balance_held = last.before.balance_held
           /\ clients'[last.tx.client_id].balance_total = last.before.balance_total)]_vars

\* C17 witness: a withdrawal of a positive amount a succeeded on an account
\* whose latest recorded transaction was a Deposit of a, made on an
\* available balance of zero while an amount was held.
C17_Witness ==
    /\ LastOnUnfrozen("Withdrawal")
    /\ last.result = "Ok"
    /\ last.tx.tx_amount > 0
    /\ last.before.transactions[last.before.previous_tx_id]
          = <<"Deposit", last.tx.tx_amount>>
    /\ LastAccount.balance_available = 0
    /\ LastAccount.balance_held > 0

\* C18: when a successful Dispute of an id on an existing unfrozen account
\* is followed at once by a Resolve of the same id, the resolve succeeds,
\* available, held, total and the disputed set are what they were before
\* the dispute, and a further Dispute of the id would succeed.
C18_DisputeThenResolve ==
    [][(/\ LastOnUnfrozen("Dispute")
        /\ last.result = "Ok"
        /\ taken' = taken + 1
        /\ last'.tx.tx_type = "Resolve"
        /\ last'.tx.client_id = last.tx.client_id
        /\ last'.tx.tx_id = last.tx.tx_id)
       => (/\ last'.result = "Ok"
           /\ clients'[last.tx.client_id].balance_available = last.before.balance_available
           /\ clients'[last.tx.client_id].balance_held = last.before.balance_held
           /\ clients'[last.tx.client_id].balance_total = last.before.balance_total
           /\ clients'[last.tx.client_id].disputed_tx = last.before.disputed_tx
           /\ process_tx(clients'[last.tx.client_id], last.tx.tx_id, "Dispute",
                         default_amount).result = "Ok")]_vars

\* C18 amended: the same, for an account whose held balance was not
\* negative before the dispute.
C18_DisputeThenResolve_NonNegative ==
    [][(/\ LastOnUnfrozen("Dispute")
        /\ last.result = "Ok"
        /\ last.before.balance_held >= 0
        /\ taken' = taken + 1
        /\ last'.tx.tx_type = "Resolve"
        /\ last'.tx.client_id = last.tx.client_id
        /\ last'.tx.tx_id = last.tx.tx_id)
       => (/\ last'.result = "Ok"
           /\ clients'[last.tx.client_id].balance_available = last.before.balance_available
           /\ clients'[last.tx.client_id].balance_held = last.before.balance_held
           /\ clients'[last.tx.client_id].balance_total = last.before.balance_total
           /\ clients'[last.tx.client_id].disputed_tx = last.before.disputed_tx
           /\ process_tx(clients'[last.tx.client_id], last.tx.tx_id, "Dispute",
                         default_amount).result = "Ok")]_vars

\* C18 witness: a resolve has released the whole positive held balance of
\* an account on which another id stays disputed.
C18_Witness ==
    /\ LastOnUnfrozen("Resolve")
    /\ last.result = "Ok"
    /\ last.before.balance_held > 0
    /\ LastAccount.balance_held = 0
    /\ LastAccount.disputed_tx # {}
    /\ last.tx.tx_id \notin LastAccount.disputed_tx

\* C19: the recorded amount of every disputed id is at most the held
\* balance, and a Resolve or Chargeback of a disputed id never finds its
\* value above held.
C19_GuardNeverTaken ==
    /\ \A c \in DOMAIN clients :
          \A t \in clients[c].disputed_tx :
             clients[c].transactions[t][2] <= clients[c].balance_held
    /\ (/\ LastOnExisting
        /\ ~last.before.frozen
        /\ last.tx.tx_type \in {"Resolve", "Chargeback"}
        /\ last.tx.tx_id \in last.before.disputed_tx)
          => last.before.transactions[last.tx.tx_id][2] <= last.before.balance_held

\* C19 amended: the same, as long as no transaction taken had a negative
\* amount and no Deposit or Withdrawal came under an id already in the
\* history of its account.
C19_GuardNeverTaken_CleanInput ==
    last.clean =>
        /\ \A c \in DOMAIN clients :
              \A t \in clients[c].disputed_tx :
                 clients[c].transactions[t][2] <= clients[c].balance_held
        /\ (/\ LastOnExisting
            /\ ~last.before.frozen
            /\ last.tx.tx_type \in {"Resolve", "Chargeback"}
            /\ last.tx.tx_id \in last.before.disputed_tx)
              => last.before.transactions[last.tx.tx_id][2] <= last.before.balance_held

\* C19 witness: on clean input, a resolve of a disputed id of positive
\* value has passed the comparison against held, on an account whose
\* history holds a second transaction.
C19_Witness ==
    /\ last.clean
    /\ LastOnUnfrozen("Resolve")
    /\ last.result = "Ok"
    /\ last.tx.tx_id \in last.before.disputed_tx
    /\ last.before.transactions[last.tx.tx_id][2] > 0
    /\ LastAccount.balance_held = last.before.balance_held
                                    - last.before.transactions[last.tx.tx_id][2]
    /\ Cardinality(DOMAIN LastAccount.transactions) = 2
    /\ last.tx.tx_id \notin LastAccount.disputed_tx

DepositsAndWithdrawals ==
    {i \in 1..Len(submitted) : submitted[i].tx_type \in {"Deposit", "Withdrawal"}}

\* C21: when every Deposit and Withdrawal amount of the input is
\* non-negative, the available, held and total balances of every account
\* are non-negative in every reachable state.
C21_BalancesNonNegative ==
    (\A i \in DepositsAndWithdrawals : submitted[i].tx_amount >= 0)
    => \A c \in DOMAIN clients :
          /\ clients[c].balance_available >= 0
          /\ clients[c].balance_held >= 0
          /\ clients[c].balance_total >= 0

\* C22: the total of every account is the sum of the amounts of its applied
\* Deposits, minus the sum of the amounts of its Withdrawals that passed
\* the funds check, minus the amount its Chargeback removed; and a Dispute
\* or Resolve leaves the total of its account as it was.
C22_TotalIsNetOfDepositsWithdrawalsChargeback ==
    /\ DOMAIN last.net = DOMAIN clients
    /\ \A c \in DOMAIN clients : clients[c].balance_total = last.net[c]
    /\ (LastOnExisting /\ last.tx.tx_type \in {"Dispute", "Resolve"})
          => LastAccount.balance_total = last.before.balance_total

\* C22 witness: a chargeback of a positive value has removed it from the
\* total of an account with two recorded deposits, and the total that is
\* left is the other deposit.
C22_Witness ==
    /\ LastOnUnfrozen("Chargeback")
    /\ last.result = "Ok"
    /\ LastAccount.frozen
    /\ get_tx_val(last.before, last.tx.tx_id) > 0
    /\ Cardinality(DOMAIN LastAccount.transactions) = 2
    /\ \A t \in DOMAIN LastAccount.transactions :
          LastAccount.transactions[t][1] = "Deposit"
    /\ LastAccount.balance_total > 0
    /\ LastAccount.balance_total
          = last.before.balance_total - get_tx_val(last.before, last.tx.tx_id)

=============================================================================
